---- MODULE Spec2Model ----
(***************************************************************************)
(* Auth session lifecycle of coco-cashu core:                              *)
(*   - AuthSessionService (session CRUD, expiry check, event emission),    *)
(*   - MemoryAuthSessionRepository (Map keyed by mint URL),                *)
(*   - AuthApi (login / restore / logout / device flow, the per-mint       *)
(*     AuthManager and OIDCAuth maps, wiring into MintAdapter).            *)
(*                                                                         *)
(* Every async method is cut at its awaits: the code between two awaits    *)
(* is one atomic step of a task, and steps of different tasks interleave   *)
(* (single-threaded cooperative scheduling).  A stretch that only returns  *)
(* or logs (the tail of saveSession, deleteSession, hasSession and         *)
(* getValidSession after their last effect) is merged with the step before *)
(* it: it reads and writes no state, so running it early changes nothing.  *)
(*                                                                         *)
(* Each task keeps what it started from (pre), the call that returned      *)
(* right before it started (after), whether anything else ran while it     *)
(* was suspended (alone) and which call last returned meanwhile (met);     *)
(* lastDone is the call that returned in the latest step.  The properties  *)
(* about one call, about one call right after another, or about two calls  *)
(* that overlap, are stated on these.                                      *)
(***************************************************************************)
EXTENDS Integers, Sequences, FiniteSets, TLC

\* ---------------------------------------------------------------- bounds
\* calls a run makes (a poll() of a device handle counts with the
\* startDeviceAuth that returned the handle)
MaxCalls == 2
\* token refreshes a run sees
MaxRefreshes == 1
\* async calls in flight at once, when calls overlap
MaxTasks == 2
\* seconds the clock advances
MaxTime == 1
\* AuthManager objects ever created
MaxAuths == 2
\* saveSession calls started with `void` and not yet finished
MaxPending == 1

\* ------------------------------------------------------ program constants
DefaultTtl == 3600

\* ------------------------------------------------------------ JS values
\* JavaScript's undefined, for the optional string fields.
Undefined == "<undefined>"
\* Variant: a test `!== ""` in place of truthiness, which undefined passes.
TruthyNotEmpty(s) == s # ""
\* JS truthiness of an optional string: undefined and "" are falsy.
Truthy(s) == s # Undefined /\ s # ""
\* a ?? d for an optional number, kept as the empty set or a singleton.
Coalesce(opt, d) == IF opt = {} THEN d ELSE CHOOSE x \in opt : TRUE

\* ------------------------------------------------------------ inputs
\* Mint URLs as character sequences: two spellings of mint "a", and "b".
Urls == { <<"a">>, <<"a", "/">>, <<"b">> }
Tokens(at, rt, ttl) ==
  [ access_token |-> at, refresh_token |-> rt, expires_in |-> ttl,
    scope |-> Undefined ]
\* The tokens argument of saveSession / login: both access tokens, with and
\* without a refresh token, with no lifetime, lifetime 0 and lifetime 1
\* (every pair of these choices occurs).
TokenInputs ==
  { Tokens("t1", Undefined, {}), Tokens("t2", "r1", {}),
    Tokens("t1", "r1", {0}), Tokens("t2", Undefined, {0}),
    Tokens("t1", Undefined, {1}), Tokens("t2", "r1", {1}) }
\* A TokenResponse handed to onTokens / returned by device.poll().
TokenResponse(at, rt, ttl) ==
  [ access_token |-> at, refresh_token |-> rt, expires_in |-> ttl ]
TokenResponses ==
  { TokenResponse("t2", "r1", {}), TokenResponse("t1", Undefined, {0}),
    TokenResponse(Undefined, Undefined, {}) }

\* ------------------------------------------------------ normalizeMintUrl
RECURSIVE normalizeMintUrl(_)
normalizeMintUrl(u) ==
  IF Len(u) > 0 /\ u[Len(u)] = "/"
  THEN normalizeMintUrl(SubSeq(u, 1, Len(u) - 1))
  ELSE u

\* ------------------------------------------- MemoryAuthSessionRepository
\* The Map is a function whose domain is the set of keys present.
\* An optional session (AuthSession | null) is the empty set or a singleton.
RepoGet(store, mintUrl) ==
  IF mintUrl \in DOMAIN store THEN { store[mintUrl] } ELSE {}

RepoSave(store, session) ==
  [ k \in (DOMAIN store) \cup { session.mintUrl } |->
      IF k = session.mintUrl THEN session ELSE store[k] ]

\* Variant: a delete that removes nothing.
RepoDeleteNothing(store, mintUrl) == store

RepoDelete(store, mintUrl) ==
  [ k \in (DOMAIN store) \ { mintUrl } |-> store[k] ]

\* new Map()
EmptyMap == [ x \in {} |-> 0 ]
\* Map.set / Map.delete of the AuthApi maps and of the MintAdapter.
MapSet(m, k, v) == [ x \in (DOMAIN m) \cup { k } |-> IF x = k THEN v ELSE m[x] ]
\* Variant: Map.delete that removes nothing.
MapDeleteNothing(m, k) == m
MapDelete(m, k) == [ x \in (DOMAIN m) \ { k } |-> m[x] ]
\* Map.get: 0 stands for undefined (AuthManager ids start at 1).
MapGet(m, k) == IF k \in DOMAIN m THEN m[k] ELSE 0

\* ---------------------------------------------------- AuthSessionService
\* Variant: saveSession storing the URL as given.
NewSessionRawUrl(mintUrl, tokens, t) ==
  [ mintUrl |-> mintUrl,
    accessToken |-> tokens.access_token,
    refreshToken |-> tokens.refresh_token,
    expiresAt |-> t + Coalesce(tokens.expires_in, DefaultTtl),
    scope |-> tokens.scope ]

\* Variant: the default lifetime applied to every falsy expires_in
\* (expires_in || 3600), 0 included.
NewSessionFalsyDefault(mintUrl, tokens, t) ==
  [ mintUrl |-> normalizeMintUrl(mintUrl),
    accessToken |-> tokens.access_token,
    refreshToken |-> tokens.refresh_token,
    expiresAt |-> t + (IF Coalesce(tokens.expires_in, 0) = 0 THEN DefaultTtl
                       ELSE Coalesce(tokens.expires_in, 0)),
    scope |-> tokens.scope ]

\* Variant: saveSession without the default lifetime (expires_in ?? 0).
NewSessionNoDefault(mintUrl, tokens, t) ==
  [ mintUrl |-> normalizeMintUrl(mintUrl),
    accessToken |-> tokens.access_token,
    refreshToken |-> tokens.refresh_token,
    expiresAt |-> t + Coalesce(tokens.expires_in, 0),
    scope |-> tokens.scope ]

\* The session saveSession builds at time t.
NewSession(mintUrl, tokens, t) ==
  [ mintUrl |-> normalizeMintUrl(mintUrl),
    accessToken |-> tokens.access_token,
    refreshToken |-> tokens.refresh_token,
    expiresAt |-> t + Coalesce(tokens.expires_in, DefaultTtl),
    scope |-> tokens.scope ]

\* Variant: the expiry test with < in place of <=.
IsExpiredStrict(session, t) == session.expiresAt < t

\* getValidSession's expiry test at time t.
IsExpired(session, t) == session.expiresAt <= t

\* The events the service emits.
UpdatedEvent(mintUrl) == [ type |-> "auth-session:updated", mintUrl |-> mintUrl ]
\* Variant: the deleted event emitted under the type of the updated event.
DeletedAsUpdated(mintUrl) == [ type |-> "auth-session:updated", mintUrl |-> mintUrl ]
DeletedEvent(mintUrl) == [ type |-> "auth-session:deleted", mintUrl |-> mintUrl ]
\* Variant: the expired event emitted under the type of the deleted event.
ExpiredAsDeleted(mintUrl) == [ type |-> "auth-session:deleted", mintUrl |-> mintUrl ]
ExpiredEvent(mintUrl) == [ type |-> "auth-session:expired", mintUrl |-> mintUrl ]

\* ------------------------------------------------------------------ state
VARIABLES
  now,          \* Math.floor(Date.now() / 1000)
  sessions,     \* MemoryAuthSessionRepository.sessions
  managers,     \* AuthApi.managers: mint URL -> AuthManager id
  oidcClients,  \* AuthApi.oidcClients: mint URL -> OIDCAuth id
  adapter,      \* MintAdapter's auth provider per mint URL
  auths,        \* the AuthManager objects created so far, by id
  devices,      \* device-code handles ({poll, cancel}) returned and not yet polled
  emitted,      \* the events the latest step emitted on the event bus
  pendingEmits, \* saveSession calls started with `void`, waiting to emit
  tasks,        \* the async calls in flight
  lastDone,     \* the call that returned in the latest step, if any
  ncalls,       \* calls started so far
  nrefresh,     \* token refreshes so far
  limit         \* how many calls this run makes, and how many at once

vars ==
  << now, sessions, managers, oidcClients, adapter, auths, devices, emitted,
     pendingEmits, tasks, lastDone, ncalls, nrefresh, limit >>

TaskIds == 1 .. MaxTasks

NoOp == [ op |-> "none" ]
NoTokens ==
  [ access_token |-> Undefined, refresh_token |-> Undefined,
    expires_in |-> {}, scope |-> Undefined ]
NoResult == [ kind |-> "none" ]

IdleTask ==
  [ op |-> "none", pc |-> "idle", url |-> <<>>, tok |-> NoTokens,
    mintUrl |-> <<>>, sess |-> {}, auth |-> 0, tnow |-> -1,
    alone |-> TRUE, after |-> NoOp, pre |-> <<>>, met |-> NoOp,
    nSave |-> 0, nSet |-> 0, nClear |-> 0, nAttach |-> 0, evs |-> << >>,
    res |-> NoResult ]

\* What a caller can observe of the stores at one instant.
Snap ==
  [ sessions |-> sessions, managers |-> managers, oidcClients |-> oidcClients,
    adapter |-> adapter, auths |-> auths ]

\* The call that returned in the step before this one, without the call before it.
Strip(d) == IF d.op = "none" THEN d ELSE [ d EXCEPT !.after = NoOp ]

\* A step of another task, or a callback, ran while r was suspended.
\* Its record of what it started from is of no use any more.
Disturb(r) ==
  IF r.pc = "idle" THEN r
  ELSE [ r EXCEPT !.alone = FALSE, !.after = NoOp, !.pre = << >> ]

\* Task i goes on as rec.
Go(i, rec) ==
  /\ tasks' = [ j \in TaskIds |-> IF j = i THEN rec ELSE Disturb(tasks[j]) ]
  /\ lastDone' = NoOp

\* Call rec returned while r was suspended: r keeps the latest such call.
Met(r, rec) ==
  IF r.pc = "idle" THEN r
  ELSE [ r EXCEPT !.met = [ op |-> rec.op, mintUrl |-> rec.mintUrl,
                            kind |-> rec.res.kind ] ]

\* Task i returns (or throws): rec carries the outcome.
Done(i, rec) ==
  /\ tasks' = [ j \in TaskIds |->
                  IF j = i THEN IdleTask ELSE Met(Disturb(tasks[j]), rec) ]
  /\ lastDone' = [ rec EXCEPT !.pc = "done" ]

\* Room for one more task.
MayStart ==
  Cardinality({ j \in TaskIds : tasks[j].pc # "idle" }) < limit.tasks

\* Room for one more call.
MayCall == ncalls < MaxCalls /\ MayStart

\* A call takes the lowest free slot.
FreeSlot(i) ==
  /\ tasks[i].pc = "idle"
  /\ \A j \in TaskIds : j < i => tasks[j].pc # "idle"

\* A task that has yet to create its AuthManager.
MayAllocate(r) ==
  \/ r.pc = "login_build"
  \/ r.pc = "emit_updated" /\ r.op = "login"
  \/ r.pc = "check_session" /\ r.op = "restore"

\* Room for one more AuthManager, counting those the tasks in flight may create.
CanAllocate ==
  Len(auths) + Cardinality({ j \in TaskIds : MayAllocate(tasks[j]) }) < MaxAuths

CanCall(i) == MayCall /\ FreeSlot(i)

StartRec(op, url) ==
  [ IdleTask EXCEPT !.op = op, !.url = url, !.mintUrl = normalizeMintUrl(url),
                    !.after = Strip(lastDone), !.pre = Snap ]

Ok(v) == [ kind |-> "ok", val |-> v ]
\* Variant: the not-found failure thrown as the expired error.
NotFoundAsExpired(mintUrl) == [ kind |-> "expired", mintUrl |-> mintUrl ]
NotFound(mintUrl) == [ kind |-> "not-found", mintUrl |-> mintUrl ]
Expired(mintUrl) == [ kind |-> "expired", mintUrl |-> mintUrl ]
Failed(what) == [ kind |-> "error", what |-> what ]

\* The repository is handed to the service at construction and may hold
\* sessions of an earlier run: none, or one for mint "a" saved at time 0 with
\* a refresh token and lifetime 1 (valid at time 0, expired from time 1 on).
InitialStores ==
  { EmptyMap,
    RepoSave(EmptyMap, NewSession(<<"a">>, Tokens("t1", "r1", {1}), 0)) }

InitState ==
  /\ now = 0
  /\ sessions \in InitialStores
  /\ managers = EmptyMap
  /\ oidcClients = EmptyMap
  /\ adapter = EmptyMap
  /\ auths = << >>
  /\ devices = {}
  /\ emitted = << >>
  /\ pendingEmits = << >>
  /\ tasks = [ i \in TaskIds |-> IdleTask ]
  /\ lastDone = NoOp
  /\ ncalls = 0
  /\ nrefresh = 0

\* Calls made one after the other.
Init == InitState /\ limit = [ tasks |-> 1 ]

\* Calls that overlap.
InitOverlap == InitState /\ limit = [ tasks |-> MaxTasks ]

\* ------------------------------------------------- the clock (environment)
Tick ==
  /\ now < MaxTime
  /\ now' = now + 1
  /\ UNCHANGED << sessions, managers, oidcClients, adapter, auths, devices,
                  pendingEmits, tasks, lastDone >>
  /\ emitted' = << >>
  /\ UNCHANGED << ncalls, nrefresh, limit >>

\* ------------------------------------------ AuthSessionService.saveSession
\* Variant: saveSession that goes on to emit without the repository write.
SaveSessionSyncNoWrite(i, rec, mintUrl, tokens) ==
  /\ sessions' = sessions
  /\ Go(i, [ rec EXCEPT
               !.pc = "emit_updated", !.tnow = now,
               !.sess = { NewSession(mintUrl, tokens, now) },
               !.nSave = rec.nSave + 1 ])

\* saveSession(mintUrl, tokens) up to its first await, in the task that goes
\* on as rec: normalize, read the clock, build the session, repo.saveSession.
SaveSessionSync(i, rec, mintUrl, tokens) ==
  /\ sessions' = RepoSave(sessions, NewSession(mintUrl, tokens, now))
  /\ Go(i, [ rec EXCEPT
               !.pc = "emit_updated", !.tnow = now,
               !.sess = { NewSession(mintUrl, tokens, now) },
               !.nSave = rec.nSave + 1 ])

CallSaveSession(i) ==
  /\ CanCall(i)
  /\ ncalls' = ncalls + 1
  /\ \E url \in Urls, tokens \in TokenInputs :
       SaveSessionSync(i, [ StartRec("saveSession", url) EXCEPT !.tok = tokens ],
                       url, tokens)
  /\ UNCHANGED << now, managers, oidcClients, adapter, auths, devices,
                  pendingEmits >>
  /\ emitted' = << >>
  /\ UNCHANGED << nrefresh, limit >>

\* saveSession after repo.saveSession: emit 'auth-session:updated',
\* logger.info, return session.
SaveSessionEmit(i) ==
  /\ tasks[i].pc = "emit_updated"
  /\ tasks[i].op = "saveSession"
  /\ emitted' = << UpdatedEvent(tasks[i].mintUrl) >>
  /\ Done(i, [ tasks[i] EXCEPT
                 !.res = Ok(tasks[i].sess),
                 !.evs = Append(tasks[i].evs, UpdatedEvent(tasks[i].mintUrl)) ])
  /\ UNCHANGED << now, sessions, managers, oidcClients, adapter, auths,
                  devices, pendingEmits >>
  /\ UNCHANGED << ncalls, nrefresh, limit >>

\* Where a caller of saveSession goes on once saveSession returned.
AfterUpdated(op) == IF op = "login" THEN "login_build" ELSE "poll_register"

\* The same inside login and poll(): emit; saveSession returns after a
\* further await.
EmitUpdated(i) ==
  /\ tasks[i].pc = "emit_updated"
  /\ tasks[i].op # "saveSession"
  /\ emitted' = << UpdatedEvent(tasks[i].mintUrl) >>
  /\ Go(i, [ tasks[i] EXCEPT
               !.pc = AfterUpdated(tasks[i].op),
               !.evs = Append(tasks[i].evs, UpdatedEvent(tasks[i].mintUrl)) ])
  /\ UNCHANGED << now, sessions, managers, oidcClients, adapter, auths,
                  devices, pendingEmits >>
  /\ UNCHANGED << ncalls, nrefresh, limit >>

\* ---------------------------------------- AuthSessionService.deleteSession
\* deleteSession(mintUrl) up to its first await: normalize, repo.deleteSession.
DeleteSessionSync(i, rec, mintUrl) ==
  /\ sessions' = RepoDelete(sessions, normalizeMintUrl(mintUrl))
  /\ Go(i, [ rec EXCEPT !.pc = "emit_deleted" ])

CallDeleteSession(i) ==
  /\ CanCall(i)
  /\ ncalls' = ncalls + 1
  /\ \E url \in Urls : DeleteSessionSync(i, StartRec("deleteSession", url), url)
  /\ UNCHANGED << now, managers, oidcClients, adapter, auths, devices,
                  pendingEmits >>
  /\ emitted' = << >>
  /\ UNCHANGED << nrefresh, limit >>

\* deleteSession after repo.deleteSession: emit 'auth-session:deleted',
\* logger.info, return.
DeleteSessionEmit(i) ==
  /\ tasks[i].pc = "emit_deleted"
  /\ tasks[i].op = "deleteSession"
  /\ emitted' = << DeletedEvent(tasks[i].mintUrl) >>
  /\ Done(i, [ tasks[i] EXCEPT
                 !.res = Ok(<< >>),
                 !.evs = Append(tasks[i].evs, DeletedEvent(tasks[i].mintUrl)) ])
  /\ UNCHANGED << now, sessions, managers, oidcClients, adapter, auths,
                  devices, pendingEmits >>
  /\ UNCHANGED << ncalls, nrefresh, limit >>

\* The same inside logout: emit; deleteSession returns after a further await.
EmitDeleted(i) ==
  /\ tasks[i].pc = "emit_deleted"
  /\ tasks[i].op = "logout"
  /\ emitted' = << DeletedEvent(tasks[i].mintUrl) >>
  /\ Go(i, [ tasks[i] EXCEPT
               !.pc = "logout_clear",
               !.evs = Append(tasks[i].evs, DeletedEvent(tasks[i].mintUrl)) ])
  /\ UNCHANGED << now, sessions, managers, oidcClients, adapter, auths,
                  devices, pendingEmits >>
  /\ UNCHANGED << ncalls, nrefresh, limit >>

\* -------------------------------------- AuthSessionService.getValidSession
\* getValidSession up to its first await: normalize, repo.getSession.
\* AuthApi.getSession and AuthApi.restore start the same way.
CallGetValidSession(i) ==
  /\ CanCall(i)
  /\ ncalls' = ncalls + 1
  /\ \E url \in Urls, op \in { "getValidSession", "getSession", "restore" } :
       /\ op = "restore" => CanAllocate
       /\ Go(i, [ StartRec(op, url) EXCEPT
                    !.pc = "check_session",
                    !.sess = RepoGet(sessions, normalizeMintUrl(url)) ])
  /\ UNCHANGED << now, sessions, managers, oidcClients, adapter, auths,
                  devices, pendingEmits >>
  /\ emitted' = << >>
  /\ UNCHANGED << nrefresh, limit >>

TheSession(i) == CHOOSE s \in tasks[i].sess : TRUE

\* if (!session) throw new AuthSessionError(mintUrl, 'No auth session found');
\* restore catches it and returns false.
SessionMissing(i) ==
  /\ tasks[i].pc = "check_session"
  /\ tasks[i].sess = {}
  /\ Done(i, [ tasks[i] EXCEPT
                 !.tnow = now,
                 !.res = IF tasks[i].op = "restore" THEN Ok(FALSE)
                         ELSE NotFound(tasks[i].mintUrl) ])
  /\ UNCHANGED << now, sessions, managers, oidcClients, adapter, auths,
                  devices, pendingEmits >>
  /\ emitted' = << >>
  /\ UNCHANGED << ncalls, nrefresh, limit >>

\* Variant: an expired session also drops the cached provider.
SessionExpiredEvicts(i) ==
  /\ tasks[i].pc = "check_session"
  /\ tasks[i].sess # {}
  /\ IsExpired(TheSession(i), now)
  /\ emitted' = << ExpiredEvent(tasks[i].mintUrl) >>
  /\ managers' = MapDelete(managers, tasks[i].mintUrl)
  /\ adapter' = MapDelete(adapter, tasks[i].mintUrl)
  /\ Done(i, [ tasks[i] EXCEPT
                 !.tnow = now,
                 !.evs = Append(tasks[i].evs, ExpiredEvent(tasks[i].mintUrl)),
                 !.res = IF tasks[i].op = "restore" THEN Ok(FALSE)
                         ELSE Expired(tasks[i].mintUrl) ])
  /\ UNCHANGED << now, sessions, oidcClients, auths, devices, pendingEmits >>
  /\ UNCHANGED << ncalls, nrefresh, limit >>

\* Variant: getValidSession that deletes the record it finds expired.
SessionExpiredSweeps(i) ==
  /\ tasks[i].pc = "check_session"
  /\ tasks[i].sess # {}
  /\ IsExpired(TheSession(i), now)
  /\ emitted' = << ExpiredEvent(tasks[i].mintUrl) >>
  /\ sessions' = RepoDelete(sessions, tasks[i].mintUrl)
  /\ Done(i, [ tasks[i] EXCEPT
                 !.tnow = now,
                 !.evs = Append(tasks[i].evs, ExpiredEvent(tasks[i].mintUrl)),
                 !.res = IF tasks[i].op = "restore" THEN Ok(FALSE)
                         ELSE Expired(tasks[i].mintUrl) ])
  /\ UNCHANGED << now, managers, oidcClients, adapter, auths, devices,
                  pendingEmits >>
  /\ UNCHANGED << ncalls, nrefresh, limit >>

\* if (session.expiresAt <= now) { await eventBus.emit('auth-session:expired');
\* throw new AuthSessionExpiredError(mintUrl) }; restore returns false.
SessionExpired(i) ==
  /\ tasks[i].pc = "check_session"
  /\ tasks[i].sess # {}
  /\ IsExpired(TheSession(i), now)
  /\ emitted' = << ExpiredEvent(tasks[i].mintUrl) >>
  /\ Done(i, [ tasks[i] EXCEPT
                 !.tnow = now,
                 !.evs = Append(tasks[i].evs, ExpiredEvent(tasks[i].mintUrl)),
                 !.res = IF tasks[i].op = "restore" THEN Ok(FALSE)
                         ELSE Expired(tasks[i].mintUrl) ])
  /\ UNCHANGED << now, sessions, managers, oidcClients, adapter, auths,
                  devices, pendingEmits >>
  /\ UNCHANGED << ncalls, nrefresh, limit >>

\* return session (getValidSession, AuthApi.getSession)
SessionValid(i) ==
  /\ tasks[i].pc = "check_session"
  /\ tasks[i].op \in { "getValidSession", "getSession" }
  /\ tasks[i].sess # {}
  /\ ~ IsExpired(TheSession(i), now)
  /\ Done(i, [ tasks[i] EXCEPT !.tnow = now, !.res = Ok(TheSession(i)) ])
  /\ UNCHANGED << now, sessions, managers, oidcClients, adapter, auths,
                  devices, pendingEmits >>
  /\ emitted' = << >>
  /\ UNCHANGED << ncalls, nrefresh, limit >>

\* ------------------------------------------- AuthSessionService.hasSession
\* Variant: hasSession without the normalization.
hasSessionRaw(mintUrl) == RepoGet(sessions, mintUrl) # {}

\* normalize; repo.getSession; return session !== null
\* (AuthApi.hasSession passes its argument on unchanged).
hasSession(mintUrl) == RepoGet(sessions, normalizeMintUrl(mintUrl)) # {}

CallHasSession ==
  /\ MayCall
  /\ ncalls' = ncalls + 1
  /\ \E url \in Urls, op \in { "hasSession", "apiHasSession" } :
       lastDone' = [ StartRec(op, url) EXCEPT
                       !.pc = "done", !.res = Ok(hasSession(url)) ]
  /\ UNCHANGED << now, sessions, managers, oidcClients, adapter, auths,
                  devices, pendingEmits, tasks >>
  /\ emitted' = << >>
  /\ UNCHANGED << nrefresh, limit >>

\* ----------------------------------------------------------------- AuthApi
\* new AuthManager(mintUrl), then setCAT(cat)
NewAuth(mintUrl, cat) == [ url |-> mintUrl, cat |-> cat, oidc |-> FALSE ]

\* Variant: the provider cached but not handed to the adapter.
RegisterProviderCacheOnly(mintUrl, a) ==
  /\ managers' = MapSet(managers, mintUrl, a)
  /\ adapter' = adapter

\* this.managers.set(mintUrl, auth); this.mintAdapter.setAuthProvider(mintUrl, auth)
RegisterProvider(mintUrl, a) ==
  /\ managers' = MapSet(managers, mintUrl, a)
  /\ adapter' = MapSet(adapter, mintUrl, a)

\* login / restore once the session is known: build the AuthManager; with a
\* refresh token go into attachOIDC (suspends in mint.oidcAuth), without one
\* register the provider and return res.
BuildProvider(i, rec, cat, refreshToken, res) ==
  LET a == Len(auths) + 1 IN
  /\ auths' = Append(auths, NewAuth(rec.mintUrl, cat))
  /\ IF Truthy(refreshToken)
     THEN /\ Go(i, [ rec EXCEPT
                       !.pc = "attach_wait", !.auth = a,
                       !.nAttach = rec.nAttach + 1 ])
          /\ UNCHANGED << managers, adapter >>
     ELSE /\ RegisterProvider(rec.mintUrl, a)
          /\ Done(i, [ rec EXCEPT
                         !.auth = a, !.res = res, !.nSet = rec.nSet + 1 ])

\* login: normalize; await saveSession(mintUrl, tokens)
CallLogin(i) ==
  /\ CanCall(i)
  /\ ncalls' = ncalls + 1
  /\ CanAllocate
  /\ \E url \in Urls, tokens \in TokenInputs :
       SaveSessionSync(i, [ StartRec("login", url) EXCEPT !.tok = tokens ],
                       normalizeMintUrl(url), tokens)
  /\ UNCHANGED << now, managers, oidcClients, adapter, auths, devices,
                  pendingEmits >>
  /\ emitted' = << >>
  /\ UNCHANGED << nrefresh, limit >>

LoginBuild(i) ==
  /\ tasks[i].pc = "login_build"
  /\ BuildProvider(i, tasks[i], tasks[i].tok.access_token,
                   tasks[i].tok.refresh_token, Ok(tasks[i].sess))
  /\ UNCHANGED << now, sessions, oidcClients, devices, pendingEmits >>
  /\ emitted' = << >>
  /\ UNCHANGED << ncalls, nrefresh, limit >>

\* restore: getValidSession returned a session
RestoreBuild(i) ==
  /\ tasks[i].pc = "check_session"
  /\ tasks[i].op = "restore"
  /\ tasks[i].sess # {}
  /\ ~ IsExpired(TheSession(i), now)
  /\ BuildProvider(i, [ tasks[i] EXCEPT !.tnow = now ], TheSession(i).accessToken,
                   TheSession(i).refreshToken, Ok(TRUE))
  /\ UNCHANGED << now, sessions, oidcClients, devices, pendingEmits >>
  /\ emitted' = << >>
  /\ UNCHANGED << ncalls, nrefresh, limit >>

\* attachOIDC after mint.oidcAuth resolved:
\* auth.attachOIDC(oidc); this.oidcClients.set(mintUrl, oidc)
AttachResolve(i) ==
  /\ tasks[i].pc = "attach_wait"
  /\ auths' = [ auths EXCEPT ![tasks[i].auth].oidc = TRUE ]
  /\ oidcClients' = MapSet(oidcClients, tasks[i].mintUrl, tasks[i].auth)
  /\ Go(i, [ tasks[i] EXCEPT !.pc = "register" ])
  /\ UNCHANGED << now, sessions, managers, adapter, devices, pendingEmits >>
  /\ emitted' = << >>
  /\ UNCHANGED << ncalls, nrefresh, limit >>

\* What login does when attachOIDC throws: the rejection leaves login.
LoginAttachFailed(i) ==
  /\ Done(i, [ tasks[i] EXCEPT !.res = Failed("attachOIDC") ])
  /\ UNCHANGED << managers, adapter >>

\* Variant: restore without its try/catch around attachOIDC.
RestoreAttachRethrows(i) ==
  /\ Done(i, [ tasks[i] EXCEPT !.res = Failed("attachOIDC") ])
  /\ UNCHANGED << managers, adapter >>

\* What restore does when attachOIDC throws: catch, logger.warn, go on.
RestoreAttachFailed(i) ==
  /\ RegisterProvider(tasks[i].mintUrl, tasks[i].auth)
  /\ Done(i, [ tasks[i] EXCEPT !.res = Ok(TRUE), !.nSet = tasks[i].nSet + 1 ])

\* mint.oidcAuth rejected inside attachOIDC
AttachReject(i) ==
  /\ tasks[i].pc = "attach_wait"
  /\ IF tasks[i].op = "login" THEN LoginAttachFailed(i) ELSE RestoreAttachFailed(i)
  /\ UNCHANGED << now, sessions, oidcClients, auths, devices, pendingEmits >>
  /\ emitted' = << >>
  /\ UNCHANGED << ncalls, nrefresh, limit >>

\* the tail of login / restore after attachOIDC returned
Register(i) ==
  /\ tasks[i].pc = "register"
  /\ RegisterProvider(tasks[i].mintUrl, tasks[i].auth)
  /\ Done(i, [ tasks[i] EXCEPT
                 !.res = IF tasks[i].op = "login" THEN Ok(tasks[i].sess) ELSE Ok(TRUE),
                 !.nSet = tasks[i].nSet + 1 ])
  /\ UNCHANGED << now, sessions, oidcClients, auths, devices, pendingEmits >>
  /\ emitted' = << >>
  /\ UNCHANGED << ncalls, nrefresh, limit >>

\* logout: normalize; await deleteSession(mintUrl)
CallLogout(i) ==
  /\ CanCall(i)
  /\ ncalls' = ncalls + 1
  /\ \E url \in Urls :
       DeleteSessionSync(i, StartRec("logout", url), normalizeMintUrl(url))
  /\ UNCHANGED << now, managers, oidcClients, adapter, auths, devices,
                  pendingEmits >>
  /\ emitted' = << >>
  /\ UNCHANGED << nrefresh, limit >>

\* Variant: logout that empties the provider cache (managers.clear()).
LogoutClearAll(i) ==
  /\ tasks[i].pc = "logout_clear"
  /\ managers' = EmptyMap
  /\ oidcClients' = MapDelete(oidcClients, tasks[i].mintUrl)
  /\ adapter' = MapDelete(adapter, tasks[i].mintUrl)
  /\ Done(i, [ tasks[i] EXCEPT !.res = Ok(<<>>), !.nClear = tasks[i].nClear + 1 ])
  /\ UNCHANGED << now, sessions, auths, devices, pendingEmits >>
  /\ emitted' = << >>
  /\ UNCHANGED << ncalls, nrefresh, limit >>

\* Variant: logout that leaves the provider registered with the adapter.
LogoutClearKeepsAdapter(i) ==
  /\ tasks[i].pc = "logout_clear"
  /\ managers' = MapDelete(managers, tasks[i].mintUrl)
  /\ oidcClients' = MapDelete(oidcClients, tasks[i].mintUrl)
  /\ Done(i, [ tasks[i] EXCEPT !.res = Ok(<<>>), !.nClear = tasks[i].nClear + 1 ])
  /\ UNCHANGED << now, sessions, adapter, auths, devices, pendingEmits >>
  /\ emitted' = << >>
  /\ UNCHANGED << ncalls, nrefresh, limit >>

\* Variant: logout that leaves the refresh handle in its cache.
LogoutClearKeepsHandle(i) ==
  /\ tasks[i].pc = "logout_clear"
  /\ managers' = MapDelete(managers, tasks[i].mintUrl)
  /\ oidcClients' = oidcClients
  /\ adapter' = MapDelete(adapter, tasks[i].mintUrl)
  /\ Done(i, [ tasks[i] EXCEPT !.res = Ok(<<>>), !.nClear = tasks[i].nClear + 1 ])
  /\ UNCHANGED << now, sessions, auths, devices, pendingEmits >>
  /\ emitted' = << >>
  /\ UNCHANGED << ncalls, nrefresh, limit >>

\* managers.delete; oidcClients.delete; mintAdapter.clearAuthProvider
LogoutClear(i) ==
  /\ tasks[i].pc = "logout_clear"
  /\ managers' = MapDelete(managers, tasks[i].mintUrl)
  /\ oidcClients' = MapDelete(oidcClients, tasks[i].mintUrl)
  /\ adapter' = MapDelete(adapter, tasks[i].mintUrl)
  /\ Done(i, [ tasks[i] EXCEPT !.res = Ok(<<>>), !.nClear = tasks[i].nClear + 1 ])
  /\ UNCHANGED << now, sessions, auths, devices, pendingEmits >>
  /\ emitted' = << >>
  /\ UNCHANGED << ncalls, nrefresh, limit >>

\* getAuthProvider(mintUrl): synchronous
getAuthProvider(mintUrl) == MapGet(managers, normalizeMintUrl(mintUrl))

CallGetAuthProvider ==
  /\ MayCall
  /\ ncalls' = ncalls + 1
  /\ \E url \in Urls :
       lastDone' = [ StartRec("getAuthProvider", url) EXCEPT
                       !.pc = "done", !.res = Ok(getAuthProvider(url)) ]
  /\ UNCHANGED << now, sessions, managers, oidcClients, adapter, auths,
                  devices, pendingEmits, tasks >>
  /\ emitted' = << >>
  /\ UNCHANGED << nrefresh, limit >>

\* --------------------------------------------------- the onTokens callback
\* Variant: a callback that hands no refresh token to saveSession.
CallbackTokensNoRefresh(t) ==
  [ access_token |-> t.access_token, refresh_token |-> Undefined,
    expires_in |-> t.expires_in, scope |-> Undefined ]

\* The tokens object the callback hands to saveSession (no scope).
CallbackTokens(t) ==
  [ access_token |-> t.access_token, refresh_token |-> t.refresh_token,
    expires_in |-> t.expires_in, scope |-> Undefined ]

\* onTokens(t) of the OIDCAuth made for AuthManager a, called in a step of
\* owner (0: the library, on a refresh):
\*   auth.setCAT(t.access_token);
\*   if (t.access_token) void saveSession(mintUrl, {...})
\* The saveSession started with `void` runs to its first await here and
\* emits later.
OnTokens(a, t, owner) ==
  /\ auths' = [ auths EXCEPT ![a].cat = t.access_token ]
  /\ IF Truthy(t.access_token)
     THEN /\ sessions' = RepoSave(sessions,
                           NewSession(auths[a].url, CallbackTokens(t), now))
          /\ pendingEmits' = Append(pendingEmits,
                               [ mintUrl |-> normalizeMintUrl(auths[a].url),
                                 owner |-> owner ])
     ELSE UNCHANGED << sessions, pendingEmits >>

\* A token refresh by the library: the OIDCAuth attached to a live
\* AuthManager delivers new tokens.
RefreshCallback ==
  /\ nrefresh < MaxRefreshes
  /\ nrefresh' = nrefresh + 1
  /\ Len(pendingEmits) < MaxPending
  /\ \E a \in 1 .. Len(auths), t \in TokenResponses :
       /\ auths[a].oidc
       /\ auths[a].cat # Undefined
       /\ OnTokens(a, t, 0)
  /\ tasks' = [ j \in TaskIds |-> Disturb(tasks[j]) ]
  /\ lastDone' = NoOp
  /\ UNCHANGED << now, managers, oidcClients, adapter, devices >>
  /\ emitted' = << >>
  /\ UNCHANGED << ncalls, limit >>

\* The rest of a saveSession started with `void`: emit, log.
BackgroundEmit ==
  /\ pendingEmits # << >>
  /\ emitted' = << UpdatedEvent(Head(pendingEmits).mintUrl) >>
  /\ pendingEmits' = Tail(pendingEmits)
  /\ tasks' = [ j \in TaskIds |->
                  IF j = Head(pendingEmits).owner THEN tasks[j]
                  ELSE Disturb(tasks[j]) ]
  /\ lastDone' = NoOp
  /\ UNCHANGED << now, sessions, managers, oidcClients, adapter, auths,
                  devices >>
  /\ UNCHANGED << ncalls, nrefresh, limit >>

\* ------------------------------------------------- AuthApi.startDeviceAuth
\* normalize; new AuthManager; new Mint; await mint.oidcAuth({onTokens})
CallStartDeviceAuth(i) ==
  /\ CanCall(i)
  /\ ncalls' = ncalls + 1
  /\ CanAllocate
  /\ \E url \in Urls :
       /\ auths' = Append(auths, NewAuth(normalizeMintUrl(url), Undefined))
       /\ Go(i, [ StartRec("startDeviceAuth", url) EXCEPT
                    !.pc = "device_oidc_wait", !.auth = Len(auths) + 1 ])
  /\ UNCHANGED << now, sessions, managers, oidcClients, adapter, devices,
                  pendingEmits >>
  /\ emitted' = << >>
  /\ UNCHANGED << nrefresh, limit >>

\* auth.attachOIDC(oidc); await oidc.startDeviceAuth()
DeviceOidcResolve(i) ==
  /\ tasks[i].pc = "device_oidc_wait"
  /\ auths' = [ auths EXCEPT ![tasks[i].auth].oidc = TRUE ]
  /\ Go(i, [ tasks[i] EXCEPT !.pc = "device_start_wait" ])
  /\ UNCHANGED << now, sessions, managers, oidcClients, adapter, devices,
                  pendingEmits >>
  /\ emitted' = << >>
  /\ UNCHANGED << ncalls, nrefresh, limit >>

\* return { verification_uri, user_code, poll, cancel }
DeviceStartResolve(i) ==
  /\ tasks[i].pc = "device_start_wait"
  /\ devices' = devices \cup { tasks[i].auth }
  /\ Done(i, [ tasks[i] EXCEPT !.res = Ok(tasks[i].auth) ])
  /\ UNCHANGED << now, sessions, managers, oidcClients, adapter, auths,
                  pendingEmits >>
  /\ emitted' = << >>
  /\ UNCHANGED << ncalls, nrefresh, limit >>

\* mint.oidcAuth or oidc.startDeviceAuth rejected
DeviceReject(i) ==
  /\ tasks[i].pc \in { "device_oidc_wait", "device_start_wait" }
  /\ Done(i, [ tasks[i] EXCEPT !.res = Failed("device") ])
  /\ UNCHANGED << now, sessions, managers, oidcClients, adapter, auths,
                  devices, pendingEmits >>
  /\ emitted' = << >>
  /\ UNCHANGED << ncalls, nrefresh, limit >>

\* poll(): await device.poll().  A handle is polled once.
CallPoll(i) ==
  /\ MayStart
  /\ FreeSlot(i)
  /\ \E a \in devices :
       /\ devices' = devices \ { a }
       /\ Go(i, [ StartRec("poll", auths[a].url) EXCEPT
                    !.pc = "poll_wait", !.auth = a ])
  /\ UNCHANGED << now, sessions, managers, oidcClients, adapter, auths,
                  pendingEmits >>
  /\ emitted' = << >>
  /\ UNCHANGED << ncalls, nrefresh, limit >>

\* The user authorized: the library hands the tokens to onTokens and
\* resolves device.poll() with them.
PollResolve(i) ==
  /\ tasks[i].pc = "poll_wait"
  /\ Len(pendingEmits) < MaxPending
  /\ \E t \in TokenResponses :
       /\ OnTokens(tasks[i].auth, t, i)
       /\ Go(i, [ tasks[i] EXCEPT !.pc = "poll_save", !.tok = t ])
  /\ UNCHANGED << now, managers, oidcClients, adapter, devices >>
  /\ emitted' = << >>
  /\ UNCHANGED << ncalls, nrefresh, limit >>

\* device.poll() rejected: cancel(), timeout or denial
PollReject(i) ==
  /\ tasks[i].pc = "poll_wait"
  /\ Done(i, [ tasks[i] EXCEPT !.res = Failed("poll") ])
  /\ UNCHANGED << now, sessions, managers, oidcClients, adapter, auths,
                  devices, pendingEmits >>
  /\ emitted' = << >>
  /\ UNCHANGED << ncalls, nrefresh, limit >>

\* Variant: poll() leaving the refresh token out of what it saves.
PollTokensNoRefresh(t) ==
  [ access_token |-> t.access_token, refresh_token |-> Undefined,
    expires_in |-> t.expires_in, scope |-> Undefined ]

\* The tokens object poll() hands to saveSession (no scope).
PollTokens(t) ==
  [ access_token |-> t.access_token, refresh_token |-> t.refresh_token,
    expires_in |-> t.expires_in, scope |-> Undefined ]

\* const tokens = await device.poll(); await saveSession(mintUrl, {...})
PollSave(i) ==
  /\ tasks[i].pc = "poll_save"
  /\ SaveSessionSync(i, tasks[i], tasks[i].mintUrl, PollTokens(tasks[i].tok))
  /\ UNCHANGED << now, managers, oidcClients, adapter, auths, devices,
                  pendingEmits >>
  /\ emitted' = << >>
  /\ UNCHANGED << ncalls, nrefresh, limit >>

\* Entries of the queue that task i started belong to nobody once i returned.
Disown(q, i) ==
  [ k \in 1 .. Len(q) |-> IF q[k].owner = i THEN [ q[k] EXCEPT !.owner = 0 ] ELSE q[k] ]

\* managers.set; oidcClients.set; mintAdapter.setAuthProvider; return tokens
PollRegister(i) ==
  /\ tasks[i].pc = "poll_register"
  /\ RegisterProvider(tasks[i].mintUrl, tasks[i].auth)
  /\ oidcClients' = MapSet(oidcClients, tasks[i].mintUrl, tasks[i].auth)
  /\ pendingEmits' = Disown(pendingEmits, i)
  /\ Done(i, [ tasks[i] EXCEPT
                 !.res = Ok(tasks[i].tok), !.nSet = tasks[i].nSet + 1 ])
  /\ UNCHANGED << now, sessions, auths, devices >>
  /\ emitted' = << >>
  /\ UNCHANGED << ncalls, nrefresh, limit >>

\* ------------------------------------------- a failing Session Service
\* The repository and the event bus are handed to the service; their
\* promises may reject.  login / logout whose repo.saveSession /
\* repo.deleteSession will reject: nothing is written.
CallWithStoreFailing(i) ==
  /\ CanCall(i)
  /\ ncalls' = ncalls + 1
  /\ \/ \E url \in Urls, tokens \in TokenInputs :
          Go(i, [ StartRec("login", url) EXCEPT
                    !.pc = "store_failed", !.tok = tokens, !.tnow = now ])
     \/ \E url \in Urls :
          Go(i, [ StartRec("logout", url) EXCEPT !.pc = "store_failed" ])
  /\ UNCHANGED << now, sessions, managers, oidcClients, adapter, auths,
                  devices, pendingEmits >>
  /\ emitted' = << >>
  /\ UNCHANGED << nrefresh, limit >>

\* The same for the saveSession of poll().
PollSaveStoreFailing(i) ==
  /\ tasks[i].pc = "poll_save"
  /\ Go(i, [ tasks[i] EXCEPT !.pc = "store_failed", !.tnow = now ])
  /\ UNCHANGED << now, sessions, managers, oidcClients, adapter, auths,
                  devices, pendingEmits >>
  /\ emitted' = << >>
  /\ UNCHANGED << ncalls, nrefresh, limit >>

\* Variant: a logout that clears the caches in a finally block.
ServiceFailsLogoutClears(i) ==
  /\ \/ tasks[i].pc = "store_failed"
     \/ tasks[i].pc \in { "emit_updated", "emit_deleted" }
  /\ IF tasks[i].op = "logout"
     THEN /\ managers' = MapDelete(managers, tasks[i].mintUrl)
          /\ oidcClients' = MapDelete(oidcClients, tasks[i].mintUrl)
          /\ adapter' = MapDelete(adapter, tasks[i].mintUrl)
     ELSE UNCHANGED << managers, oidcClients, adapter >>
  /\ pendingEmits' = Disown(pendingEmits, i)
  /\ Done(i, [ tasks[i] EXCEPT !.res = Failed("session-service") ])
  /\ UNCHANGED << now, sessions, auths, devices >>
  /\ emitted' = << >>
  /\ UNCHANGED << ncalls, nrefresh, limit >>

\* The rejection reaches the awaiting call: of the repository promise, or
\* of eventBus.emit after the write.  saveSession and deleteSession have no
\* try/catch, nor have login, poll() and logout around them: the call
\* rejects there.
ServiceFails(i) ==
  /\ \/ tasks[i].pc = "store_failed"
     \/ tasks[i].pc \in { "emit_updated", "emit_deleted" }
  /\ pendingEmits' = Disown(pendingEmits, i)
  /\ Done(i, [ tasks[i] EXCEPT !.res = Failed("session-service") ])
  /\ UNCHANGED << now, sessions, managers, oidcClients, adapter, auths,
                  devices >>
  /\ emitted' = << >>
  /\ UNCHANGED << ncalls, nrefresh, limit >>

\* ------------------------------------------------------------------- spec
Next ==
  \/ Tick
  \/ RefreshCallback
  \/ BackgroundEmit
  \/ CallGetAuthProvider
  \/ CallHasSession
  \/ \E i \in TaskIds :
       \/ CallSaveSession(i)
       \/ EmitUpdated(i)
       \/ SaveSessionEmit(i)
       \/ CallDeleteSession(i)
       \/ EmitDeleted(i)
       \/ DeleteSessionEmit(i)
       \/ CallGetValidSession(i)
       \/ SessionMissing(i)
       \/ SessionExpired(i)
       \/ SessionValid(i)
       \/ CallLogin(i)
       \/ LoginBuild(i)
       \/ RestoreBuild(i)
       \/ AttachResolve(i)
       \/ AttachReject(i)
       \/ Register(i)
       \/ CallLogout(i)
       \/ LogoutClear(i)
       \/ CallStartDeviceAuth(i)
       \/ DeviceOidcResolve(i)
       \/ DeviceStartResolve(i)
       \/ DeviceReject(i)
       \/ CallPoll(i)
       \/ PollResolve(i)
       \/ PollReject(i)
       \/ PollSave(i)
       \/ PollRegister(i)

Spec == Init /\ [][Next]_vars

OverlapSpec == InitOverlap /\ [][Next]_vars

\* The same with a Session Service that may fail.
FaultNext ==
  \/ Next
  \/ \E i \in TaskIds :
       \/ CallWithStoreFailing(i)
       \/ PollSaveStoreFailing(i)
       \/ ServiceFails(i)

FaultSpec == Init /\ [][FaultNext]_vars

\* Sequential use of the orchestrator alone: a call or a refresh callback
\* starts only when the one before it, its background saveSession included,
\* has finished, and nobody calls saveSession or deleteSession directly.
Settled ==
  /\ \A i \in TaskIds : tasks[i].pc = "idle"
  /\ pendingEmits = << >>

ApiNext ==
  \/ Tick
  \/ BackgroundEmit
  \/ Settled /\ RefreshCallback
  \/ Settled /\ CallGetAuthProvider
  \/ Settled /\ CallHasSession
  \/ \E i \in TaskIds :
       \/ Settled /\ CallGetValidSession(i)
       \/ Settled /\ CallLogin(i)
       \/ Settled /\ CallLogout(i)
       \/ Settled /\ CallStartDeviceAuth(i)
       \/ Settled /\ CallPoll(i)
       \/ EmitUpdated(i)
       \/ EmitDeleted(i)
       \/ SessionMissing(i)
       \/ SessionExpired(i)
       \/ SessionValid(i)
       \/ LoginBuild(i)
       \/ RestoreBuild(i)
       \/ AttachResolve(i)
       \/ AttachReject(i)
       \/ Register(i)
       \/ LogoutClear(i)
       \/ DeviceOidcResolve(i)
       \/ DeviceStartResolve(i)
       \/ DeviceReject(i)
       \/ PollResolve(i)
       \/ PollReject(i)
       \/ PollSave(i)
       \/ PollRegister(i)

ApiSpec == Init /\ [][ApiNext]_vars

\* ------------------------------------------------------------- properties
\* The endpoint id of a mint URL: its normalized form.
EndpointOf(url) == normalizeMintUrl(url)

\* The latest step returned a call of op that nothing else interleaved with.
Returned(op) == lastDone.op = op /\ lastDone.alone

\* ... and that call started right after an undisturbed call of op returned.
RightAfter(op) == lastDone.after.op = op /\ lastDone.after.alone

\* The session stored for the endpoint of url in a store (a set: none or one).
StoredFor(store, url) == RepoGet(store, EndpointOf(url))

\* ---- C1
C1_Case ==
  /\ Returned("getValidSession")
  /\ RightAfter("saveSession")
  /\ lastDone.url = lastDone.after.url

\* C1 (as the code has it): getValidSession(E) called right after
\* saveSession(E, t) returns the saved session, with accessToken =
\* t.access_token and expiresAt > now, when t's lifetime (3600 if none is
\* supplied) is greater than the seconds elapsed between the two clock reads;
\* otherwise it fails with the expired error.
C1_SaveThenGetValid ==
  C1_Case =>
    LET t == lastDone.after.tok
        elapsed == lastDone.tnow - lastDone.after.tnow
    IN  IF Coalesce(t.expires_in, DefaultTtl) > elapsed
        THEN /\ lastDone.res.kind = "ok"
             /\ lastDone.res.val.accessToken = t.access_token
             /\ lastDone.res.val.expiresAt > lastDone.tnow
        ELSE lastDone.res.kind = "expired"

\* C1 as claimed: with no time elapsed, the round trip succeeds for every
\* supplied lifetime or none.
C1_AnyLifetime ==
  (C1_Case /\ lastDone.tnow = lastDone.after.tnow) =>
    /\ lastDone.res.kind = "ok"
    /\ lastDone.res.val.accessToken = lastDone.after.tok.access_token
    /\ lastDone.res.val.expiresAt > lastDone.tnow

\* A session saved with lifetime 1 is read back in the same second.
C1_Witness ==
  /\ C1_Case
  /\ lastDone.after.tok.expires_in = {1}
  /\ lastDone.tnow = lastDone.after.tnow
  /\ lastDone.res.kind = "ok"

\* ---- C2
C2_Case ==
  /\ lastDone.op \in { "hasSession", "getValidSession" }
  /\ lastDone.alone
  /\ RightAfter("deleteSession")
  /\ lastDone.url = lastDone.after.url

\* C2: right after deleteSession(E), whatever the store held before,
\* hasSession(E) is false and getValidSession(E) fails with the not-found
\* error, not the expired one.
C2_DeleteThenAbsent ==
  C2_Case =>
    IF lastDone.op = "hasSession"
    THEN lastDone.res.kind = "ok" /\ lastDone.res.val = FALSE
    ELSE lastDone.res.kind = "not-found"

\* deleteSession removed a stored session and getValidSession then found none.
C2_Witness ==
  /\ C2_Case
  /\ lastDone.op = "getValidSession"
  /\ StoredFor(lastDone.after.pre.sessions, lastDone.url) # {}
  /\ lastDone.res.kind = "not-found"

\* ---- C3
\* C3: getValidSession(E) on a record with expiresAt <= now fails with the
\* expired error carrying E and emits exactly one session-expired event whose
\* payload is the normalized endpoint id; with no record it fails not-found
\* and with a valid record it succeeds, emitting nothing in both cases.
C3_ExpiryDetected ==
  Returned("getValidSession") =>
    LET stored == StoredFor(lastDone.pre.sessions, lastDone.url)
        E == EndpointOf(lastDone.url)
    IN  IF stored = {}
        THEN lastDone.res.kind = "not-found" /\ lastDone.evs = << >>
        ELSE IF (CHOOSE x \in stored : TRUE).expiresAt <= lastDone.tnow
        THEN /\ lastDone.res.kind = "expired"
             /\ lastDone.res.mintUrl = E
             /\ lastDone.evs = << [ type |-> "auth-session:expired", mintUrl |-> E ] >>
        ELSE lastDone.res.kind = "ok" /\ lastDone.evs = << >>

\* getValidSession met a record expiring exactly now, under a URL spelled
\* with a trailing slash.
C3_Witness ==
  /\ Returned("getValidSession")
  /\ lastDone.url # EndpointOf(lastDone.url)
  /\ StoredFor(lastDone.pre.sessions, lastDone.url) # {}
  /\ \A x \in StoredFor(lastDone.pre.sessions, lastDone.url) :
       x.expiresAt = lastDone.tnow
  /\ lastDone.res.kind = "expired"

\* ---- C4
\* login attached a refresh handle and mint.oidcAuth rejected.
C4_Case ==
  /\ Returned("login")
  /\ Truthy(lastDone.tok.refresh_token)
  /\ lastDone.nAttach = 1
  /\ ~ auths[lastDone.auth].oidc

\* C4: a login with a refresh token whose refresh-handle attachment fails
\* still succeeds: it returns the persisted session, and the provider seeded
\* with tokens.access_token is cached and registered with the adapter.
C4_LoginSurvivesAttachFailure ==
  C4_Case =>
    LET E == EndpointOf(lastDone.url) IN
    /\ lastDone.res.kind = "ok"
    /\ lastDone.res.val = StoredFor(sessions, lastDone.url)
    /\ MapGet(managers, E) = lastDone.auth
    /\ MapGet(adapter, E) = lastDone.auth
    /\ auths[lastDone.auth].cat = lastDone.tok.access_token

\* What login does instead: it rejects after the session was persisted, and
\* neither cache nor the adapter learns of the provider.
C4_LoginRejects ==
  C4_Case =>
    /\ lastDone.res.kind = "error"
    /\ lastDone.nSave = 1
    /\ lastDone.nSet = 0
    /\ StoredFor(sessions, lastDone.url) = lastDone.sess
    /\ managers = lastDone.pre.managers
    /\ adapter = lastDone.pre.adapter
    /\ oidcClients = lastDone.pre.oidcClients

\* ---- C5
\* restore attached a refresh handle and mint.oidcAuth rejected.
C5_Case ==
  /\ Returned("restore")
  /\ lastDone.nAttach = 1
  /\ ~ auths[lastDone.auth].oidc

\* C5: a restore of a valid session with a refresh token whose refresh-handle
\* attachment fails returns true, the provider reporting the stored access
\* token is cached and registered, and no refresh handle is cached for E.
C5_RestoreSurvivesAttachFailure ==
  C5_Case =>
    LET E == EndpointOf(lastDone.url) IN
    /\ lastDone.res.kind = "ok"
    /\ lastDone.res.val = TRUE
    /\ MapGet(managers, E) = lastDone.auth
    /\ MapGet(adapter, E) = lastDone.auth
    /\ \A x \in StoredFor(lastDone.pre.sessions, lastDone.url) :
         auths[lastDone.auth].cat = x.accessToken
    /\ E \notin DOMAIN oidcClients

\* What restore does: all of the above but the last; the refresh-handle
\* cache is left as it was, with any handle an earlier login cached for E.
C5_RestoreKeepsHandleCache ==
  C5_Case =>
    LET E == EndpointOf(lastDone.url) IN
    /\ lastDone.res.kind = "ok"
    /\ lastDone.res.val = TRUE
    /\ MapGet(managers, E) = lastDone.auth
    /\ MapGet(adapter, E) = lastDone.auth
    /\ \A x \in StoredFor(lastDone.pre.sessions, lastDone.url) :
         auths[lastDone.auth].cat = x.accessToken
    /\ oidcClients = lastDone.pre.oidcClients

\* ---- C6
\* C6: restore(E) returns false, calls setAuthProvider not at all and leaves
\* the live provider of E as it was (absent stays absent) when the store has
\* no valid session for E (none, or one with expiresAt <= now); it returns
\* true and calls setAuthProvider exactly once, with a provider that
\* getAuthProvider(E) then returns and that reports the stored access token,
\* when the store has a valid session.
C6_RestoreOutcome ==
  Returned("restore") =>
    LET E == EndpointOf(lastDone.url)
        stored == StoredFor(lastDone.pre.sessions, lastDone.url)
    IN  IF \E x \in stored : x.expiresAt > lastDone.tnow
        THEN /\ lastDone.res.kind = "ok"
             /\ lastDone.res.val = TRUE
             /\ lastDone.nSet = 1
             /\ lastDone.auth \in 1 .. Len(auths)
             /\ getAuthProvider(lastDone.url) = lastDone.auth
             /\ MapGet(adapter, E) = lastDone.auth
             /\ \A x \in stored : auths[lastDone.auth].cat = x.accessToken
        ELSE /\ lastDone.res.kind = "ok"
             /\ lastDone.res.val = FALSE
             /\ lastDone.nSet = 0
             /\ getAuthProvider(lastDone.url) = MapGet(lastDone.pre.managers, E)
             /\ adapter = lastDone.pre.adapter

\* restore found a valid session with a refresh token, the attachment
\* failed, and the provider was registered all the same.
C6_Witness ==
  /\ C5_Case
  /\ lastDone.res.kind = "ok"
  /\ lastDone.res.val = TRUE
  /\ lastDone.nSet = 1
  /\ getAuthProvider(lastDone.url) = lastDone.auth

\* ---- C7
C7_Case ==
  /\ Returned("restore")
  /\ lastDone.res.kind = "ok"
  /\ lastDone.res.val = FALSE

C7_StoresUnchanged ==
  /\ sessions = lastDone.pre.sessions
  /\ managers = lastDone.pre.managers
  /\ oidcClients = lastDone.pre.oidcClients
  /\ adapter = lastDone.pre.adapter
  /\ auths = lastDone.pre.auths

\* C7 (as the code has it): a restore(E) that returns false leaves the store,
\* both caches and the adapter as they were; it emits nothing when E has no
\* record, and exactly one session-expired event for E when the record has
\* expired.
C7_RestoreFalseEffects ==
  C7_Case =>
    /\ C7_StoresUnchanged
    /\ lastDone.evs =
         IF StoredFor(lastDone.pre.sessions, lastDone.url) = {}
         THEN << >>
         ELSE << [ type |-> "auth-session:expired",
                   mintUrl |-> EndpointOf(lastDone.url) ] >>

\* C7 as claimed: a restore that returns false emits no event either.
C7_RestoreFalseSilent ==
  C7_Case => C7_StoresUnchanged /\ lastDone.evs = << >>

\* restore returned false on an expired record.
C7_Witness ==
  /\ C7_Case
  /\ StoredFor(lastDone.pre.sessions, lastDone.url) # {}
  /\ Len(lastDone.evs) = 1

\* ---- C8
C8_Case ==
  /\ Returned("login")
  /\ lastDone.tok.refresh_token \in { Undefined, "" }

\* C8: login(E, tokens) with no refresh token calls saveSession exactly
\* once and setAuthProvider exactly once, returns the session, leaves
\* getAuthProvider(E) reporting tokens.access_token, and makes no attempt to
\* attach a refresh handle.
C8_LoginAccessTokenOnly ==
  C8_Case =>
    /\ lastDone.res.kind = "ok"
    /\ lastDone.res.val = StoredFor(sessions, lastDone.url)
    /\ lastDone.nSave = 1
    /\ lastDone.nSet = 1
    /\ lastDone.nAttach = 0
    /\ lastDone.auth \in 1 .. Len(auths)
    /\ getAuthProvider(lastDone.url) = lastDone.auth
    /\ MapGet(adapter, EndpointOf(lastDone.url)) = lastDone.auth
    /\ auths[lastDone.auth].cat = lastDone.tok.access_token
    /\ ~ auths[lastDone.auth].oidc
    /\ oidcClients = lastDone.pre.oidcClients

\* login with an access token only returned its session.
C8_Witness ==
  /\ C8_Case
  /\ lastDone.res.kind = "ok"
  /\ lastDone.nSet = 1
  /\ lastDone.nAttach = 0

\* ---- C9
C9_Case ==
  /\ Returned("logout")
  /\ lastDone.after.op \in { "login", "poll" }
  /\ lastDone.after.alone
  /\ lastDone.after.res.kind = "ok"
  /\ EndpointOf(lastDone.url) = EndpointOf(lastDone.after.url)

\* C9: after a successful login(E, tokens) or device-flow poll followed by
\* logout(E), getAuthProvider(E) is absent, hasSession(E) is false, no
\* refresh handle is cached for E, and clearAuthProvider(E) was called.
C9_LogoutClearsAll ==
  C9_Case =>
    LET E == EndpointOf(lastDone.url) IN
    /\ lastDone.res.kind = "ok"
    /\ getAuthProvider(lastDone.url) = 0
    /\ ~ hasSession(lastDone.url)
    /\ E \notin DOMAIN sessions
    /\ E \notin DOMAIN oidcClients
    /\ lastDone.nClear = 1
    /\ E \notin DOMAIN adapter

\* logout found a provider and a refresh handle cached for E and a session
\* stored, and cleared them.
C9_Witness ==
  /\ C9_Case
  /\ EndpointOf(lastDone.url) \in DOMAIN lastDone.pre.oidcClients
  /\ EndpointOf(lastDone.url) \in DOMAIN lastDone.pre.managers
  /\ EndpointOf(lastDone.url) \in DOMAIN lastDone.pre.sessions
  /\ lastDone.nClear = 1

\* ---- C10
C10_Case == Returned("poll") /\ lastDone.res.kind = "ok"

\* What poll() leaves behind when it returns tokens T, but for expiresAt.
C10_Wired ==
  LET T == lastDone.res.val
      E == EndpointOf(lastDone.url)
  IN  /\ E \in DOMAIN sessions
      /\ sessions[E].accessToken = T.access_token
      /\ sessions[E].refreshToken = T.refresh_token
      /\ MapGet(managers, E) = lastDone.auth
      /\ MapGet(adapter, E) = lastDone.auth
      /\ auths[lastDone.auth].cat = T.access_token
      /\ hasSession(lastDone.url)

\* A poll() in flight has not registered its provider, and has persisted
\* the session by the time it is about to.
C10_PersistBeforeRegister ==
  \A i \in TaskIds :
    (tasks[i].op = "poll" /\ tasks[i].alone) =>
      /\ managers = tasks[i].pre.managers
      /\ adapter = tasks[i].pre.adapter
      /\ tasks[i].pc = "poll_register" =>
           /\ tasks[i].mintUrl \in DOMAIN sessions
           /\ sessions[tasks[i].mintUrl].accessToken = tasks[i].tok.access_token
           /\ tasks[i].nSave = 1

\* C10 (as the code has it): when the poll() returned by startDeviceAuth(E)
\* succeeds with tokens T, the session of E is stored with accessToken =
\* T.access_token, refreshToken = T.refresh_token and expiresAt = the time of
\* the save + (T.expires_in, or 3600 if absent); the provider built by
\* startDeviceAuth is cached, registered with the adapter and reports
\* T.access_token; hasSession(E) is true; and the session is persisted
\* before the provider is registered.
C10_PollSuccess ==
  /\ C10_Case =>
       /\ C10_Wired
       /\ sessions[EndpointOf(lastDone.url)].expiresAt =
            lastDone.tnow + Coalesce(lastDone.res.val.expires_in, DefaultTtl)
  /\ C10_PersistBeforeRegister

\* C10 as claimed: the stored expiresAt is in the future.
C10_PollSuccessFuture ==
  /\ C10_Case =>
       /\ C10_Wired
       /\ sessions[EndpointOf(lastDone.url)].expiresAt > now
  /\ C10_PersistBeforeRegister

\* poll() returned tokens with a refresh token, for the provider that
\* startDeviceAuth built.
C10_Witness ==
  /\ C10_Case
  /\ lastDone.res.val.refresh_token = "r1"
  /\ lastDone.nSave = 1
  /\ lastDone.nSet = 1
  /\ MapGet(managers, EndpointOf(lastDone.url)) = lastDone.auth

\* ---- C11
\* The reads of the service and of AuthApi.
Reads ==
  { "getValidSession", "getSession", "hasSession", "apiHasSession",
    "getAuthProvider" }

\* The latest call was made under another spelling of the endpoint of the
\* undisturbed call right before it.
C11_OtherSpelling ==
  /\ lastDone.op # "none"
  /\ lastDone.alone
  /\ lastDone.after.op # "none"
  /\ lastDone.after.alone
  /\ lastDone.url # lastDone.after.url
  /\ normalizeMintUrl(lastDone.url) = normalizeMintUrl(lastDone.after.url)

\* What a read finds right after a saveSession or a login that returned.
C11_FindsSaved ==
  (lastDone.op \in Reads /\ lastDone.after.op \in { "saveSession", "login" }
     /\ lastDone.after.res.kind = "ok") =>
    /\ lastDone.op \in { "hasSession", "apiHasSession" } =>
         lastDone.res.val = TRUE
    /\ lastDone.op \in { "getValidSession", "getSession" } =>
         /\ lastDone.res.kind \in { "ok", "expired" }
         /\ lastDone.res.kind = "ok" => lastDone.res.val \in lastDone.after.sess
    /\ (lastDone.op = "getAuthProvider" /\ lastDone.after.op = "login") =>
         lastDone.res.val = lastDone.after.auth

\* What a read finds right after a deleteSession or a logout.
C11_FindsRemoved ==
  (lastDone.op \in Reads /\ lastDone.after.op \in { "deleteSession", "logout" }) =>
    /\ lastDone.op \in { "hasSession", "apiHasSession" } =>
         lastDone.res.val = FALSE
    /\ lastDone.op \in { "getValidSession", "getSession" } =>
         lastDone.res.kind = "not-found"
    /\ (lastDone.op = "getAuthProvider" /\ lastDone.after.op = "logout") =>
         lastDone.res.val = 0

\* What a write does to the session the call before it saved.
C11_Overwrites ==
  (lastDone.after.op \in { "saveSession", "login" }
     /\ lastDone.after.res.kind = "ok") =>
    /\ (lastDone.op \in { "saveSession", "login" } /\ lastDone.nSave = 1) =>
         /\ DOMAIN sessions = DOMAIN lastDone.pre.sessions
         /\ RepoGet(sessions, lastDone.after.mintUrl) = lastDone.sess
    /\ lastDone.op \in { "deleteSession", "logout" } =>
         DOMAIN sessions = DOMAIN lastDone.pre.sessions \ { lastDone.after.mintUrl }
    /\ lastDone.op = "restore" =>
         lastDone.res.val = (\E x \in lastDone.after.sess : x.expiresAt > lastDone.tnow)

\* C11: two spellings with the same normalized form are one endpoint: what
\* was saved, logged in or removed under one spelling is what
\* getValidSession, getSession, hasSession and getAuthProvider find, and what
\* saveSession, login, deleteSession, logout and restore act on, under the
\* other.
C11_OneEndpoint ==
  C11_OtherSpelling => C11_FindsSaved /\ C11_FindsRemoved /\ C11_Overwrites

\* A session saved under one spelling was returned by getValidSession under
\* the other.
C11_Witness ==
  /\ C11_OtherSpelling
  /\ lastDone.op = "getValidSession"
  /\ lastDone.after.op = "saveSession"
  /\ lastDone.res.kind = "ok"
  /\ lastDone.res.val \in lastDone.after.sess

\* ---- C12
\* A saveSession call has written its record and not yet emitted.
C12_WrittenBeforeEmit ==
  \A i \in TaskIds :
    (tasks[i].op = "saveSession" /\ tasks[i].pc = "emit_updated") =>
      /\ tasks[i].nSave = 1
      /\ tasks[i].evs = << >>
      /\ tasks[i].alone =>
           RepoGet(sessions, normalizeMintUrl(tasks[i].url)) = tasks[i].sess

\* C12: each completed saveSession(E, t) emitted exactly one session-updated
\* event, with the normalized endpoint id as payload, after it wrote the
\* record to the store, and no session-deleted or session-expired event.
C12_SaveEmitsOneUpdated ==
  /\ lastDone.op = "saveSession" =>
       /\ lastDone.res.kind = "ok"
       /\ lastDone.nSave = 1
       /\ lastDone.evs = << [ type |-> "auth-session:updated",
                              mintUrl |-> normalizeMintUrl(lastDone.url) ] >>
  /\ C12_WrittenBeforeEmit

\* saveSession returned for a URL spelled with a trailing slash.
C12_Witness ==
  /\ lastDone.op = "saveSession"
  /\ lastDone.url # normalizeMintUrl(lastDone.url)
  /\ Len(lastDone.evs) = 1
  /\ RepoGet(sessions, normalizeMintUrl(lastDone.url)) = lastDone.sess

\* ---- C13
\* C13: deleteSession(E) completes without error whether or not E has a
\* record; it leaves the store without a record for E and otherwise as it
\* was (unchanged when E had none), and emits exactly one session-deleted
\* event for E in both cases.
C13_DeleteAbsentOrPresent ==
  Returned("deleteSession") =>
    LET E == normalizeMintUrl(lastDone.url) IN
    /\ lastDone.res.kind = "ok"
    /\ DOMAIN sessions = DOMAIN lastDone.pre.sessions \ { E }
    /\ \A k \in DOMAIN sessions : sessions[k] = lastDone.pre.sessions[k]
    /\ E \notin DOMAIN lastDone.pre.sessions => sessions = lastDone.pre.sessions
    /\ lastDone.evs = << [ type |-> "auth-session:deleted", mintUrl |-> E ] >>

\* deleteSession returned for an endpoint that had no record.
C13_Witness ==
  /\ Returned("deleteSession")
  /\ normalizeMintUrl(lastDone.url) \notin DOMAIN lastDone.pre.sessions
  /\ lastDone.res.kind = "ok"
  /\ Len(lastDone.evs) = 1

\* ---- C14
\* hasSession(E) was called right after getValidSession(E) failed as expired.
C14_Case ==
  /\ Returned("hasSession")
  /\ RightAfter("getValidSession")
  /\ lastDone.after.res.kind = "expired"
  /\ normalizeMintUrl(lastDone.url) = normalizeMintUrl(lastDone.after.url)

\* C14: getValidSession(E) and hasSession(E) (and getSession, which
\* delegates) leave the store as it was; after getValidSession(E) failed with
\* the expired error the expired record is still stored and hasSession(E)
\* returns true.
C14_ReadsKeepStore ==
  /\ ( /\ lastDone.op \in { "getValidSession", "getSession", "hasSession",
                            "apiHasSession" }
       /\ lastDone.alone ) => sessions = lastDone.pre.sessions
  /\ C14_Case =>
       /\ lastDone.res.val = TRUE
       /\ RepoGet(sessions, normalizeMintUrl(lastDone.url)) = lastDone.after.sess
       /\ \A x \in lastDone.after.sess : x.expiresAt <= lastDone.after.tnow

\* hasSession returned true for a record getValidSession had just found
\* expired.
C14_Witness ==
  /\ C14_Case
  /\ lastDone.res.val = TRUE
  /\ lastDone.after.sess # {}

\* ---- C15
\* getSession(E) was called right after getValidSession(E), in the same second.
C15_Case ==
  /\ Returned("getSession")
  /\ RightAfter("getValidSession")
  /\ lastDone.url = lastDone.after.url
  /\ lastDone.tnow = lastDone.after.tnow

\* C15: AuthApi.getSession(E) has the outcome of getValidSession(E): the
\* not-found error when E has no record, the expired error carrying E when
\* the record has expiresAt <= now, the stored record otherwise; the two
\* errors differ; and called right after getValidSession(E) in the same
\* second it has the very same outcome.
C15_GetSessionDelegates ==
  /\ Returned("getSession") =>
       LET stored == StoredFor(lastDone.pre.sessions, lastDone.url) IN
       IF stored = {}
       THEN /\ lastDone.res.kind = "not-found"
            /\ lastDone.res.mintUrl = normalizeMintUrl(lastDone.url)
       ELSE IF \E x \in stored : x.expiresAt <= lastDone.tnow
       THEN /\ lastDone.res.kind = "expired"
            /\ lastDone.res.mintUrl = normalizeMintUrl(lastDone.url)
       ELSE /\ lastDone.res.kind = "ok"
            /\ lastDone.res.val \in stored
  /\ C15_Case => lastDone.res = lastDone.after.res

\* getSession and getValidSession both failed as expired on the same record.
C15_Witness ==
  /\ C15_Case
  /\ lastDone.res.kind = "expired"
  /\ lastDone.after.res.kind = "expired"

\* ---- C16
\* Map m is map before without its entry for key k, if it had one.
SameBut(m, before, k) ==
  /\ DOMAIN m = DOMAIN before \ { k }
  /\ \A x \in DOMAIN m : m[x] = before[x]

\* logout(E) was called right after logout(E).
C16_Case ==
  /\ Returned("logout")
  /\ RightAfter("logout")
  /\ normalizeMintUrl(lastDone.url) = normalizeMintUrl(lastDone.after.url)

\* C16: logout(E) completes without error and leaves the store, both caches
\* and the adapter registration without an entry for E and otherwise as they
\* were; so a logout(E) right after a logout(E), or on an endpoint that was
\* never authenticated, changes none of them.
C16_LogoutIdempotent ==
  /\ Returned("logout") =>
       LET E == normalizeMintUrl(lastDone.url) IN
       /\ lastDone.res.kind = "ok"
       /\ SameBut(sessions, lastDone.pre.sessions, E)
       /\ SameBut(managers, lastDone.pre.managers, E)
       /\ SameBut(oidcClients, lastDone.pre.oidcClients, E)
       /\ SameBut(adapter, lastDone.pre.adapter, E)
  /\ C16_Case =>
       /\ lastDone.res.kind = "ok"
       /\ sessions = lastDone.pre.sessions
       /\ managers = lastDone.pre.managers
       /\ oidcClients = lastDone.pre.oidcClients
       /\ adapter = lastDone.pre.adapter

\* The second of two logouts in a row returned; the first had removed a
\* stored session.
C16_Witness ==
  /\ C16_Case
  /\ normalizeMintUrl(lastDone.url) \in DOMAIN lastDone.after.pre.sessions
  /\ lastDone.res.kind = "ok"
  /\ sessions = lastDone.pre.sessions

\* ---- C17
\* saveSession(E, ...) returned right after a saveSession for the same
\* endpoint under the other spelling.
C17_Case ==
  /\ Returned("saveSession")
  /\ RightAfter("saveSession")
  /\ lastDone.url # lastDone.after.url
  /\ normalizeMintUrl(lastDone.url) = normalizeMintUrl(lastDone.after.url)

\* C17: in every state the store holds at most one record per endpoint,
\* every record's mintUrl is in normal form and is the key it is stored
\* under, and a saveSession replaces the record of its endpoint instead of
\* adding one.
C17_OneRecordPerEndpoint ==
  /\ \A k \in DOMAIN sessions :
       /\ sessions[k].mintUrl = k
       /\ normalizeMintUrl(k) = k
  /\ \A k1, k2 \in DOMAIN sessions :
       normalizeMintUrl(k1) = normalizeMintUrl(k2) => k1 = k2
  /\ Returned("saveSession") =>
       LET E == normalizeMintUrl(lastDone.url) IN
       /\ DOMAIN sessions = DOMAIN lastDone.pre.sessions \cup { E }
       /\ RepoGet(sessions, E) = lastDone.sess
       /\ \A k \in DOMAIN sessions \ { E } : sessions[k] = lastDone.pre.sessions[k]

\* The second saveSession replaced the record the first had stored.
C17_Witness ==
  /\ C17_Case
  /\ lastDone.sess # lastDone.after.sess
  /\ RepoGet(lastDone.pre.sessions, normalizeMintUrl(lastDone.url)) = lastDone.after.sess
  /\ RepoGet(sessions, normalizeMintUrl(lastDone.url)) = lastDone.sess
  /\ DOMAIN sessions = DOMAIN lastDone.pre.sessions

\* ---- C19
\* C19: saveSession returns and stores a session with expiresAt = now + ttl,
\* where now is the second it read the clock and ttl is the supplied
\* lifetime when one is supplied (0 included) and 3600 only when none is;
\* with no lifetime expiresAt lies within [now + 3599, now + 3601].
C19_ExpiresAtArithmetic ==
  lastDone.op = "saveSession" =>
    /\ lastDone.res.kind = "ok"
    /\ lastDone.res.val = lastDone.sess
    /\ \A x \in lastDone.sess :
         /\ \A ttl \in lastDone.tok.expires_in :
              x.expiresAt = lastDone.tnow + ttl
         /\ lastDone.tok.expires_in = {} =>
              /\ x.expiresAt = lastDone.tnow + 3600
              /\ x.expiresAt \in (lastDone.tnow + 3599) .. (lastDone.tnow + 3601)
    /\ lastDone.alone => RepoGet(sessions, normalizeMintUrl(lastDone.url)) = lastDone.sess

\* saveSession with a supplied lifetime of 0, after the clock had advanced.
C19_Witness ==
  /\ lastDone.op = "saveSession"
  /\ lastDone.tok.expires_in = {0}
  /\ lastDone.tnow > 0
  /\ \A x \in lastDone.sess : x.expiresAt = lastDone.tnow
  /\ lastDone.sess # {}

\* ---- C18
\* login, poll() or logout returned the failure of the Session Service.
C18_Case ==
  /\ lastDone.op \in { "login", "poll", "logout" }
  /\ lastDone.alone
  /\ lastDone.res.kind = "error"
  /\ lastDone.res.what = "session-service"

C18_CachesAsBefore(pre) ==
  /\ managers = pre.managers
  /\ oidcClients = pre.oidcClients
  /\ adapter = pre.adapter

\* C18: when the Session Service or the store fails during login(E, ...),
\* during the final persist of poll() or during logout(E), the call fails
\* with that failure and the live-provider cache, the refresh-handle cache
\* and the adapter registration are as they were before the call; no call
\* touches them before its Session Service call has returned.
C18_FailurePropagates ==
  /\ C18_Case =>
       /\ C18_CachesAsBefore(lastDone.pre)
       /\ lastDone.nSet = 0
       /\ lastDone.nClear = 0
       /\ lastDone.nAttach = 0
  /\ \A i \in TaskIds :
       ( /\ tasks[i].op \in { "login", "poll", "logout" }
         /\ tasks[i].alone
         /\ tasks[i].pc \in { "store_failed", "emit_updated", "emit_deleted" } )
       => C18_CachesAsBefore(tasks[i].pre)

\* logout(E) failed while a provider was cached and registered for E, and
\* both are still there.
C18_Witness ==
  /\ C18_Case
  /\ lastDone.op = "logout"
  /\ lastDone.mintUrl \in DOMAIN managers
  /\ lastDone.mintUrl \in DOMAIN adapter

\* ---- C20
\* login(E, ...) returned its session after a logout(E) had returned while
\* the login was suspended, and no call is in flight.
C20_Raced ==
  /\ lastDone.op = "login"
  /\ lastDone.res.kind = "ok"
  /\ ~ lastDone.alone
  /\ lastDone.met.op = "logout"
  /\ lastDone.met.kind = "ok"
  /\ lastDone.met.mintUrl = lastDone.mintUrl
  /\ \A i \in TaskIds : tasks[i].pc = "idle"

\* C20: overlapping login and logout of one endpoint are not serialized and
\* each view takes the last write: whatever ran in between, a login that
\* returns its session has just cached and registered its provider and a
\* logout that returns has just cleared both caches and the registration,
\* while the store was written when the call started (the session by login,
\* its removal by logout).
C20_LastWriteWins ==
  /\ (lastDone.op = "login" /\ lastDone.res.kind = "ok") =>
       /\ MapGet(managers, lastDone.mintUrl) = lastDone.auth
       /\ MapGet(adapter, lastDone.mintUrl) = lastDone.auth
       /\ lastDone.auth \in 1 .. Len(auths)
  /\ (lastDone.op = "logout" /\ lastDone.res.kind = "ok") =>
       /\ lastDone.mintUrl \notin DOMAIN managers
       /\ lastDone.mintUrl \notin DOMAIN oidcClients
       /\ lastDone.mintUrl \notin DOMAIN adapter
  /\ \A i \in TaskIds :
       /\ (tasks[i].op = "login" /\ tasks[i].pc = "emit_updated" /\ tasks[i].alone) =>
            RepoGet(sessions, tasks[i].mintUrl) = tasks[i].sess
       /\ (tasks[i].op = "logout" /\ tasks[i].pc = "emit_deleted" /\ tasks[i].alone) =>
            tasks[i].mintUrl \notin DOMAIN sessions
       /\ (tasks[i].op = "login" /\ tasks[i].pc # "idle") =>
            MapGet(managers, tasks[i].mintUrl) # tasks[i].auth \/ tasks[i].auth = 0

\* The race: the logout deleted the session the login had persisted and
\* cleared the caches before the login registered its provider; with both
\* calls completed a provider is cached and registered for E and the store
\* holds no session for E.
C20_Witness ==
  /\ C20_Raced
  /\ lastDone.mintUrl \notin DOMAIN sessions
  /\ MapGet(managers, lastDone.mintUrl) = lastDone.auth
  /\ MapGet(adapter, lastDone.mintUrl) = lastDone.auth

\* ---- C21
\* Every key an entry can be stored under.
Keys == Urls \cup { normalizeMintUrl(u) : u \in Urls }

\* This step changed what is stored, cached or registered under k, or
\* emitted an event carrying k.
Touched(k) ==
  \/ RepoGet(sessions', k) # RepoGet(sessions, k)
  \/ MapGet(managers', k) # MapGet(managers, k)
  \/ MapGet(oidcClients', k) # MapGet(oidcClients, k)
  \/ MapGet(adapter', k) # MapGet(adapter, k)
  \/ \E n \in 1 .. Len(emitted') : emitted'[n].mintUrl = k

\* The endpoint of the call that task i moves on with in this step.
Subject(i) == IF tasks[i].pc = "idle" THEN tasks'[i].mintUrl ELSE tasks[i].mintUrl

C21_Step ==
  /\ \A i \in TaskIds :
       tasks'[i].pc # tasks[i].pc => \A k \in Keys : Touched(k) => k = Subject(i)
  /\ \A a \in 1 .. Len(auths) :
       auths'[a] # auths[a] => \A k \in Keys : Touched(k) => k = auths[a].url
  /\ pendingEmits # << >> /\ pendingEmits' = Tail(pendingEmits) =>
       \A k \in Keys : Touched(k) => k = Head(pendingEmits).mintUrl
  /\ Cardinality({ k \in Keys : Touched(k) }) <= 1

\* C21: under any interleaving, a step of a call, of a refresh callback or
\* of a background saveSession for endpoint E1 changes the stored record,
\* the provider cache entry, the refresh-handle cache entry and the adapter
\* registration of no other endpoint and emits no event carrying another
\* endpoint.
C21_EndpointsIndependent == [][C21_Step]_vars

\* A logout of another endpoint ran to completion while a login was
\* suspended after its persist, and the login's session is still stored.
C21_Witness ==
  \E i \in TaskIds :
    /\ tasks[i].op = "login"
    /\ tasks[i].pc = "login_build"
    /\ tasks[i].met.op = "logout"
    /\ tasks[i].met.mintUrl # tasks[i].mintUrl
    /\ RepoGet(sessions, tasks[i].mintUrl) = tasks[i].sess

\* ---- C22
\* Task i finishes a logout of endpoint k in this step.
LogoutRuns(k) ==
  \E i \in TaskIds :
    /\ tasks[i].op = "logout"
    /\ tasks[i].mintUrl = normalizeMintUrl(k)
    /\ tasks[i].pc = "logout_clear"
    /\ tasks'[i].pc = "idle"

\* C22: the provider cache entry of endpoint E is evicted only by
\* logout(E): a step after which getAuthProvider(E) no longer returns a
\* provider, when it did before, is the cache-clearing step of a logout(E);
\* every other step (an expired or missing session, a restore returning
\* false, a failed login, a cancelled or failed poll) leaves a provider
\* (possibly a newer one) in place.
C22_EvictedOnlyByLogout ==
  [][ \A k \in Keys :
        MapGet(managers, normalizeMintUrl(k)) # 0
          /\ MapGet(managers', normalizeMintUrl(k)) = 0
        => LogoutRuns(k) ]_vars

\* restore(E) has returned false with a provider for E still cached.
C22_Witness ==
  /\ Returned("restore")
  /\ lastDone.res.kind = "ok"
  /\ lastDone.res.val = FALSE
  /\ getAuthProvider(lastDone.url) # 0

\* ---- C23
\* The step is a refresh callback of AuthManager a delivering tokens t.
C23_Callback(a, t) ==
  /\ auths[a].oidc
  /\ auths' = [ auths EXCEPT ![a].cat = t.access_token ]
  /\ managers' = managers
  /\ oidcClients' = oidcClients
  /\ adapter' = adapter
  /\ emitted' = << >>
  /\ t.access_token \notin { Undefined, "" } =>
       LET E == auths[a].url IN
         /\ DOMAIN sessions' = DOMAIN sessions \cup { E }
         /\ \A k \in DOMAIN sessions : k # E => sessions'[k] = sessions[k]
         /\ sessions'[E].mintUrl = E
         /\ sessions'[E].accessToken = t.access_token
         /\ sessions'[E].refreshToken = t.refresh_token
         /\ pendingEmits' = Append(pendingEmits, [ mintUrl |-> E, owner |-> 0 ])

\* The step finishes a saveSession started by a callback.
C23_Emit ==
  /\ emitted' = << UpdatedEvent(Head(pendingEmits).mintUrl) >>
  /\ UNCHANGED << sessions, managers, oidcClients, adapter, auths >>

\* C23: a refresh callback with a non-empty access token t' sets t' on the
\* provider the callback was created for and writes the session of that
\* provider's endpoint (same key, the one record replaced, no other record
\* touched) with t' and the delivered refresh token; the provider cache, the
\* refresh-handle cache and the adapter registration stay as they were; the
\* saveSession it started emits exactly one auth-session:updated event for
\* the endpoint, in a later step that changes nothing else.
C23_RefreshCallback ==
  [][ /\ nrefresh' # nrefresh =>
           \E a \in 1 .. Len(auths), t \in TokenResponses : C23_Callback(a, t)
      /\ pendingEmits # << >> /\ pendingEmits' = Tail(pendingEmits) => C23_Emit
    ]_vars

\* A refresh callback of the registered provider of an authenticated
\* endpoint has persisted its token; its event is still to come.
C23_Witness ==
  /\ nrefresh = 1
  /\ Len(pendingEmits) = 1
  /\ pendingEmits[1].owner = 0
  /\ \E a \in 1 .. Len(auths) :
       LET E == auths[a].url IN
         /\ E = pendingEmits[1].mintUrl
         /\ MapGet(managers, E) = a
         /\ MapGet(oidcClients, E) = a
         /\ MapGet(adapter, E) = a
         /\ auths[a].cat \notin { Undefined, "" }
         /\ E \in DOMAIN sessions
         /\ sessions[E].accessToken = auths[a].cat
         /\ sessions[E].refreshToken = "r1"

\* ---- C24
\* C24: in every state of every interleaving, so at every suspension point,
\* the adapter has a provider registered for an endpoint exactly when the
\* provider cache has an entry for it, and it is the same AuthManager.
C24_CacheMatchesAdapter ==
  /\ DOMAIN adapter = DOMAIN managers
  /\ \A k \in DOMAIN managers : adapter[k] = managers[k]

\* A logout of E is suspended between its deleteSession and its cache
\* clearing; a login of E ran to completion meanwhile, and its provider is
\* cached and registered.
C24_Witness ==
  \E i \in TaskIds :
    /\ tasks[i].op = "logout"
    /\ tasks[i].pc = "logout_clear"
    /\ tasks[i].met.op = "login"
    /\ tasks[i].met.mintUrl = tasks[i].mintUrl
    /\ MapGet(managers, tasks[i].mintUrl) # 0
    /\ MapGet(adapter, tasks[i].mintUrl) = MapGet(managers, tasks[i].mintUrl)

\* ---- C25
\* No call is in flight and no background saveSession is pending.
Quiescent ==
  /\ \A i \in TaskIds : tasks[i].pc = "idle"
  /\ pendingEmits = << >>

\* C25: after any sequence of completed calls, a handle in the
\* refresh-handle cache for E is the handle attached to the provider the
\* provider cache holds for E.
C25_HandleBelongsToProvider ==
  Quiescent =>
    \A k \in DOMAIN oidcClients :
      /\ k \in DOMAIN managers
      /\ oidcClients[k] = managers[k]
      /\ auths[managers[k]].oidc

\* ---- C26
\* C26: in sequential executions of the orchestrator, whenever a provider
\* is registered for E, a session is stored for E and the provider's
\* current access token is the stored session's accessToken.
C26_ProviderMatchesStore ==
  Settled =>
    \A k \in DOMAIN managers :
      /\ k \in DOMAIN sessions
      /\ auths[managers[k]].cat = sessions[k].accessToken

\* ---- C27
\* C27: once logout(E) has completed, a step that is not a step of a call
\* (so not of a new login or poll: a refresh callback, a background
\* saveSession, the clock) leaves hasSession(E) false and emits no
\* auth-session:updated event for E.
C27_LoggedOutStays ==
  [][ /\ Returned("logout")
      /\ lastDone.res.kind = "ok"
      /\ \A i \in TaskIds : tasks'[i].pc = tasks[i].pc
      => /\ lastDone.mintUrl \notin DOMAIN sessions'
         /\ \A n \in 1 .. Len(emitted') :
              emitted'[n] # UpdatedEvent(lastDone.mintUrl)
    ]_vars

====
